---- MODULE Spec2Model ----
(***************************************************************************)
(* Model of scripts/security/bidi_scan.mjs: the scanner for unsafe         *)
(* bidirectional and hidden Unicode control characters.                    *)
(*                                                                         *)
(* Characters are UTF-16 code units (integers).  Path strings, codepoint   *)
(* labels and other short strings the program inspects character by        *)
(* character are tuples of one-character strings.                          *)
(***************************************************************************)
EXTENDS Integers, Sequences, FiniteSets, TLC

VARIABLES
    pc,             \* position of main
    enum,           \* outcome of getGitFiles: "pending", "ok", "failed"
    files,          \* main: const files
    idx,            \* main: position of the for-of loop in files (1-based)
    raw,            \* what readFileSync found for the file scanned last
    findings,       \* main: const findings (the value scanFile returned)
    lastIndex,      \* unsafePattern.lastIndex
    results,        \* main: const results (a plain JavaScript object)
    totalFindings,  \* main: let totalFindings
    written,        \* content of docs/ops/reports/_tmp_bidi_scan.json
    writeAttempts,  \* number of calls of writeFileSync
    console,        \* lines printed so far
    exitCode,       \* process exit status, NoExit while running
    scanned         \* history: findings count of every scanFile call so far

vars == <<pc, enum, files, idx, raw, findings, lastIndex, results,
          totalFindings, written, writeAttempts, console, exitCode, scanned>>

----------------------------------------------------------------------------
(* Bounds *)

MaxFiles == 2
MaxLen == 2
MaxScanLen == 3

----------------------------------------------------------------------------
(* Values *)

NoExit == -1
NoMatch == -1
NotWritten == [present |-> FALSE, content |-> <<>>]
ReadError == [ok |-> FALSE, bytes |-> <<>>]
ReadOk(bytes) == [ok |-> TRUE, bytes |-> bytes]
InvalidByte == -2
ReplacementChar == 65533
LF == 10

\* UNSAFE_CHARS, in source order: <<code unit, name>>
UNSAFE_CHARS ==
    << <<8234, "LRE (Left-to-Right Embedding)">>,
       <<8235, "RLE (Right-to-Left Embedding)">>,
       <<8236, "PDF (Pop Directional Formatting)">>,
       <<8237, "LRO (Left-to-Right Override)">>,
       <<8238, "RLO (Right-to-Left Override)">>,
       <<8294, "LRI (Left-to-Right Isolate)">>,
       <<8295, "RLI (Right-to-Left Isolate)">>,
       <<8296, "FSI (First Strong Isolate)">>,
       <<8297, "PDI (Pop Directional Isolate)">>,
       <<8203, "ZWSP (Zero Width Space)">>,
       <<8204, "ZWNJ (Zero Width Non-Joiner)">>,
       <<8205, "ZWJ (Zero Width Joiner)">>,
       <<8206, "LRM (Left-to-Right Mark)">>,
       <<8207, "RLM (Right-to-Left Mark)">>,
       <<65279, "BOM/ZWNBSP (Zero Width No-Break Space)">> >>

\* Object.keys(UNSAFE_CHARS): the alternatives of unsafePattern
unsafePattern == [i \in 1..Len(UNSAFE_CHARS) |-> UNSAFE_CHARS[i][1]]

\* UNSAFE_CHARS[char]
NameOf(char) ==
    LET i == CHOOSE j \in 1..Len(UNSAFE_CHARS) : UNSAFE_CHARS[j][1] = char
    IN  UNSAFE_CHARS[i][2]

----------------------------------------------------------------------------
(* String helpers *)

Min(S) == CHOOSE m \in S : \A n \in S : m <= n

HexDigits ==
    <<"0","1","2","3","4","5","6","7","8","9","A","B","C","D","E","F">>

\* n.toString(16).toUpperCase()
RECURSIVE ToHexUpper(_)
ToHexUpper(n) ==
    IF n < 16 THEN <<HexDigits[n + 1]>>
    ELSE Append(ToHexUpper(n \div 16), HexDigits[(n % 16) + 1])

\* s.padStart(width, fill)
RECURSIVE PadStart(_, _, _)
PadStart(s, width, fill) ==
    IF Len(s) >= width THEN s ELSE PadStart(<<fill>> \o s, width, fill)

\* 'U+' + char.charCodeAt(0).toString(16).toUpperCase().padStart(4, '0')
CodepointLabel(char) == <<"U", "+">> \o PadStart(ToHexUpper(char), 4, "0")

\* s.split(sep) for a one-character separator: the pieces between separators
RECURSIVE SplitFrom(_, _, _, _)
SplitFrom(s, sep, i, piece) ==
    IF i > Len(s) THEN <<piece>>
    ELSE IF s[i] = sep THEN <<piece>> \o SplitFrom(s, sep, i + 1, <<>>)
    ELSE SplitFrom(s, sep, i + 1, Append(piece, s[i]))

Split(s, sep) == SplitFrom(s, sep, 1, <<>>)

\* content.substring(0, end)
Substring0(s, end) == SubSeq(s, 1, end)

----------------------------------------------------------------------------
(* scanFile *)

\* readFileSync(filePath, 'utf-8') on a file that can be opened: every byte
\* sequence that is not valid UTF-8 decodes to U+FFFD, a leading U+FEFF is
\* kept, and no error is thrown.
RECURSIVE Decode(_)
Decode(bytes) ==
    IF bytes = <<>> THEN <<>>
    ELSE <<IF Head(bytes) = InvalidByte THEN ReplacementChar ELSE Head(bytes)>>
         \o Decode(Tail(bytes))

\* does some alternative of unsafePattern match at 0-based index i
MatchesAt(content, i) ==
    \E a \in 1..Len(unsafePattern) : content[i + 1] = unsafePattern[a]

ExecSkippingOne(content, from) ==
    LET hits == {i \in from..(Len(content) - 1) : MatchesAt(content, i)}
    IN  IF from > Len(content) \/ hits = {}
        THEN [index |-> NoMatch, char |-> NoMatch, lastIndex |-> 0]
        ELSE [index |-> Min(hits), char |-> content[Min(hits) + 1],
              lastIndex |-> Min(hits) + 2]

\* unsafePattern.exec(content) for a global regex whose lastIndex is from:
\* the leftmost match at or after from, and the lastIndex it leaves
Exec(content, from) ==
    LET hits == {i \in from..(Len(content) - 1) : MatchesAt(content, i)}
    IN  IF from > Len(content) \/ hits = {}
        THEN [index |-> NoMatch, char |-> NoMatch, lastIndex |-> 0]
        ELSE [index |-> Min(hits), char |-> content[Min(hits) + 1],
              lastIndex |-> Min(hits) + 1]

LineNumberAnyBreak(content, index) ==
    Len(Split(Substring0(content, index), LF))
        + Len(Split(Substring0(content, index), 13)) - 1

\* beforeMatch.split('\n').length
LineNumber(content, index) == Len(Split(Substring0(content, index), LF))

\* the object pushed onto findings
Finding(content, match) ==
    [char      |-> match.char,
     codepoint |-> CodepointLabel(match.char),
     name      |-> NameOf(match.char),
     position  |-> match.index,
     line      |-> LineNumber(content, match.index)]

\* the while loop of scanFile
RECURSIVE ExecLoop(_, _, _)
ExecLoop(content, from, acc) ==
    LET match == Exec(content, from)
    IN  IF match.index = NoMatch
        THEN [findings |-> acc, lastIndex |-> match.lastIndex]
        ELSE ExecLoop(content, match.lastIndex,
                      Append(acc, Finding(content, match)))

\* scanFile(filePath): read is what readFileSync does for the path, li is
\* unsafePattern.lastIndex at the call
scanFile(read, li) ==
    IF ~read.ok
    THEN [findings |-> <<>>, lastIndex |-> li]
    ELSE ExecLoop(Decode(read.bytes), 0, <<>>)

----------------------------------------------------------------------------
(* Plain JavaScript objects: results and counts *)

\* the key whose assignment runs the setter inherited from Object.prototype
ProtoKey == <<"_", "_", "p", "r", "o", "t", "o", "_", "_">>

\* the prototype link: Object.prototype, or the array a __proto__ assignment
\* installed
ObjectPrototype == [replaced |-> FALSE, value |-> <<>>]

\* {} : no own property, prototype Object.prototype.  own lists the own
\* properties in creation order.
EmptyObject == [own |-> <<>>, proto |-> ObjectPrototype]

Digits == <<"0","1","2","3","4","5","6","7","8","9">>

IsDigit(c) == \E d \in 1..10 : Digits[d] = c

DigitValue(c) == (CHOOSE d \in 1..10 : Digits[d] = c) - 1

RECURSIVE DecimalValue(_)
DecimalValue(k) ==
    IF k = <<>> THEN 0
    ELSE 10 * DecimalValue(SubSeq(k, 1, Len(k) - 1)) + DigitValue(k[Len(k)])

\* is the property key an array index: the canonical decimal form of an
\* integer in 0 .. 2^32 - 2.  Keys here are at most 9 characters long, and
\* every canonical decimal of at most 9 digits is below 2^32 - 1.
IsArrayIndex(k) ==
    /\ Len(k) > 0
    /\ \A i \in 1..Len(k) : IsDigit(k[i])
    /\ (k[1] = "0" => Len(k) = 1)

HasOwn(o, k) == \E i \in 1..Len(o.own) : o.own[i][1] = k

OwnIndex(o, k) == CHOOSE i \in 1..Len(o.own) : o.own[i][1] = k

\* o[k] for a key the object owns
Get(o, k) == o.own[OwnIndex(o, k)][2]

\* o[k] = v, v an object or a number: the key __proto__ reaches the
\* inherited setter, which replaces the prototype when v is an object and
\* creates no own property; an own key keeps its place; a new key is
\* created last
ObjSet(o, k, v, isObject) ==
    IF k = ProtoKey
    THEN IF isObject
         THEN [o EXCEPT !.proto = [replaced |-> TRUE, value |-> v]]
         ELSE o
    ELSE IF HasOwn(o, k)
         THEN [o EXCEPT !.own[OwnIndex(o, k)] = <<k, v>>]
         ELSE [o EXCEPT !.own = Append(@, <<k, v>>)]

\* ascending sort of a finite set of integers
RECURSIVE SortAscending(_)
SortAscending(S) ==
    IF S = {} THEN <<>> ELSE <<Min(S)>> \o SortAscending(S \ {Min(S)})

IsIndexEntry(e) == IsArrayIndex(e[1])

IsStringEntry(e) == ~IsArrayIndex(e[1])

\* OrdinaryOwnPropertyKeys: array-index keys in ascending numeric order,
\* then the other string keys in creation order
OwnKeys(o) ==
    LET indexEntries == SelectSeq(o.own, IsIndexEntry)
        stringEntries == SelectSeq(o.own, IsStringEntry)
        sorted == SortAscending(
            {DecimalValue(indexEntries[i][1]) : i \in 1..Len(indexEntries)})
        keyOf(n) == CHOOSE k \in {indexEntries[i][1] : i \in 1..Len(indexEntries)} :
                        DecimalValue(k) = n
    IN  [i \in 1..Len(sorted) |-> keyOf(sorted[i])]
        \o [i \in 1..Len(stringEntries) |-> stringEntries[i][1]]

\* Object.entries(o)
Entries(o) == [i \in 1..Len(OwnKeys(o)) |-> <<OwnKeys(o)[i], Get(o, OwnKeys(o)[i])>>]

\* JSON.stringify(o, null, 2): the own enumerable properties in the order
\* of OwnKeys, each finding with all its fields
Stringify(o) == Entries(o)

----------------------------------------------------------------------------
(* getGitFiles *)

Whitespace == {" ", "\t", "\r", "\n"}

\* f.trim()
RECURSIVE TrimStart(_)
TrimStart(f) ==
    IF f # <<>> /\ Head(f) \in Whitespace THEN TrimStart(Tail(f)) ELSE f

RECURSIVE TrimEnd(_)
TrimEnd(f) ==
    IF f # <<>> /\ f[Len(f)] \in Whitespace
    THEN TrimEnd(SubSeq(f, 1, Len(f) - 1)) ELSE f

Trim(f) == TrimEnd(TrimStart(f))

NonBlank(f) == Len(Trim(f)) > 0

\* git ls-files prints every path followed by a newline, so
\* output.split('\n') is the paths followed by one empty string
SplitOutput(paths) == Append(paths, <<>>)

\* output.split('\n').filter(f => f.trim().length > 0)
FilterLines(lines) == SelectSeq(lines, NonBlank)

\* the path strings git ls-files prints in the model: a plain name, two
\* names that are canonical decimals, a decimal with a leading zero, and
\* __proto__
Paths == { <<"a">>, <<"2">>, <<"1", "0">>, <<"0", "1">>, ProtoKey }

\* the byte of each character of those paths
CharCodes ==
    << <<"0", 48>>, <<"1", 49>>, <<"2", 50>>, <<"_", 95>>, <<"a", 97>>,
       <<"o", 111>>, <<"p", 112>>, <<"r", 114>>, <<"t", 116>> >>

CharCode(c) ==
    CharCodes[CHOOSE i \in 1..Len(CharCodes) : CharCodes[i][1] = c][2]

\* the order of the index, which is the order git ls-files prints: paths
\* compared byte by byte, a proper prefix first
RECURSIVE PathLess(_, _)
PathLess(a, b) ==
    IF b = <<>> THEN FALSE
    ELSE IF a = <<>> THEN TRUE
    ELSE IF CharCode(Head(a)) # CharCode(Head(b))
         THEN CharCode(Head(a)) < CharCode(Head(b))
         ELSE PathLess(Tail(a), Tail(b))

InIndexOrder(q) == \A i \in 1..(Len(q) - 1) : ~PathLess(q[i + 1], q[i])

RECURSIVE SeqsUpTo(_, _)
SeqsUpTo(S, n) ==
    IF n = 0 THEN {<<>>}
    ELSE LET shorter == SeqsUpTo(S, n - 1)
         IN  shorter \cup {Append(q, x) : q \in shorter, x \in S}

\* the file lists git ls-files can print, in index order; an unmerged index
\* lists a path once per stage, so a path may repeat
FileLists == {q \in SeqsUpTo(Paths, MaxFiles) : InIndexOrder(q)}

----------------------------------------------------------------------------
(* Console output *)

Line(kind, path, codepoint, name, n, m) ==
    [kind |-> kind, path |-> path, codepoint |-> codepoint, name |-> name,
     n |-> n, m |-> m]

Plain(kind) == Line(kind, <<>>, <<>>, "", 0, 0)

\* counts[finding.codepoint] = (counts[finding.codepoint] || 0) + 1, for
\* every finding in order
RECURSIVE CountByCodepoint(_, _)
CountByCodepoint(fs, counts) ==
    IF fs = <<>> THEN counts
    ELSE LET cp == Head(fs).codepoint
             old == IF HasOwn(counts, cp) THEN Get(counts, cp) ELSE 0
         IN  CountByCodepoint(Tail(fs), ObjSet(counts, cp, old + 1, FALSE))

\* findings.find(f => f.codepoint === codepoint)
FindExample(fs, codepoint) ==
    fs[Min({i \in 1..Len(fs) : fs[i].codepoint = codepoint})]

\* the lines printed for one entry of Object.entries(results)
FileLines(file, fs) ==
    LET counts == Entries(CountByCodepoint(fs, EmptyObject))
    IN  <<Line("file", file, <<>>, "", 0, 0)>>
        \o [i \in 1..Len(counts) |->
               Line("count", <<>>, counts[i][1],
                    FindExample(fs, counts[i][1]).name, counts[i][2], 0)]
        \o <<Plain("blank")>>

RECURSIVE AllFileLines(_)
AllFileLines(entries) ==
    IF entries = <<>> THEN <<>>
    ELSE FileLines(Head(entries)[1], Head(entries)[2])
         \o AllFileLines(Tail(entries))

\* the else branch of the human-readable report
FoundLines(res, total) ==
    <<Line("found", <<>>, <<>>, "", total, Len(OwnKeys(res)))>>
    \o AllFileLines(Entries(res))
    \o <<Line("summary", <<>>, <<>>, "", total, 0), Plain("json")>>

ExitStatusAboveOne(total) == IF total > 1 THEN 1 ELSE 0

\* process.exit(totalFindings > 0 ? 1 : 0)
ExitStatus(total) == IF total > 0 THEN 1 ELSE 0

----------------------------------------------------------------------------
(* The file system as the run sees it *)

\* bytes of the files of the model: a newline, a catalogued character, and
\* a byte that is not valid UTF-8 (ScanSpec below covers the whole catalogue)
Bytes == {LF, 8203, InvalidByte}

\* what readFileSync can do for a path: throw (missing, unreadable, a
\* directory) or return the decoded bytes
Reads == {ReadError} \cup {ReadOk(b) : b \in SeqsUpTo(Bytes, MaxLen)}

----------------------------------------------------------------------------
(* main *)

Init ==
    /\ pc = "main"
    /\ enum = "pending"
    /\ files = <<>>
    /\ idx = 1
    /\ raw = ReadError
    /\ findings = <<>>
    /\ lastIndex = 0
    /\ results = EmptyObject
    /\ totalFindings = 0
    /\ written = NotWritten
    /\ writeAttempts = 0
    /\ console = <<>>
    /\ exitCode = NoExit
    /\ scanned = <<>>

\* main up to the loop, git ls-files succeeding
GetGitFilesOk ==
    /\ pc = "main"
    /\ \E paths \in FileLists :
           files' = FilterLines(SplitOutput(paths))
    /\ enum' = "ok"
    /\ console' = Append(console, Plain("scanning"))
    /\ pc' = "loop"
    /\ UNCHANGED <<idx, raw, findings, lastIndex, results, totalFindings,
                   written, writeAttempts, exitCode, scanned>>

GetGitFilesFailReturnsEmpty ==
    /\ pc = "main"
    /\ enum' = "failed"
    /\ console' = console \o <<Plain("scanning"), Plain("error")>>
    /\ files' = <<>>
    /\ pc' = "loop"
    /\ UNCHANGED <<idx, raw, findings, lastIndex, results, totalFindings,
                   written, writeAttempts, exitCode, scanned>>

\* main up to the loop, execSync throwing: the catch block of getGitFiles
GetGitFilesFail ==
    /\ pc = "main"
    /\ enum' = "failed"
    /\ console' = console \o <<Plain("scanning"), Plain("error")>>
    /\ exitCode' = 1
    /\ pc' = "exited"
    /\ UNCHANGED <<files, idx, raw, findings, lastIndex, results,
                   totalFindings, written, writeAttempts, scanned>>

ScanFileStepLogging ==
    /\ pc = "loop"
    /\ idx <= Len(files)
    /\ \E read \in Reads :
           LET r == scanFile(read, lastIndex)
           IN  /\ raw' = read
               /\ findings' = r.findings
               /\ lastIndex' = r.lastIndex
               /\ scanned' = Append(scanned, Len(r.findings))
               /\ console' = IF read.ok THEN console
                             ELSE Append(console, Plain("skipped"))
    /\ pc' = "aggregate"
    /\ UNCHANGED <<enum, files, idx, results, totalFindings, written,
                   writeAttempts, exitCode>>

\* const findings = scanFile(file)
ScanFileStep ==
    /\ pc = "loop"
    /\ idx <= Len(files)
    /\ \E read \in Reads :
           LET r == scanFile(read, lastIndex)
           IN  /\ raw' = read
               /\ findings' = r.findings
               /\ lastIndex' = r.lastIndex
               /\ scanned' = Append(scanned, Len(r.findings))
    /\ pc' = "aggregate"
    /\ UNCHANGED <<enum, files, idx, results, totalFindings, written,
                   writeAttempts, console, exitCode>>

\* the if statement of the loop body, and the step to the next file
Aggregate ==
    /\ pc = "aggregate"
    /\ IF Len(findings) > 0
       THEN /\ results' = ObjSet(results, files[idx], findings, TRUE)
            /\ totalFindings' = totalFindings + Len(findings)
       ELSE UNCHANGED <<results, totalFindings>>
    /\ idx' = idx + 1
    /\ findings' = <<>>
    /\ raw' = ReadError
    /\ pc' = "loop"
    /\ UNCHANGED <<enum, files, lastIndex, written, writeAttempts, console,
                   exitCode, scanned>>

WriteReportOnlyFindings ==
    /\ pc = "loop"
    /\ idx > Len(files)
    /\ IF totalFindings > 0
       THEN /\ written' = [present |-> TRUE, content |-> Stringify(results)]
            /\ writeAttempts' = writeAttempts + 1
       ELSE UNCHANGED <<written, writeAttempts>>
    /\ pc' = "report"
    /\ UNCHANGED <<enum, files, idx, raw, findings, lastIndex, results,
                   totalFindings, console, exitCode, scanned>>

\* writeFileSync(jsonPath, JSON.stringify(results, null, 2), 'utf-8')
WriteReportOk ==
    /\ pc = "loop"
    /\ idx > Len(files)
    /\ written' = [present |-> TRUE, content |-> Stringify(results)]
    /\ writeAttempts' = writeAttempts + 1
    /\ pc' = "report"
    /\ UNCHANGED <<enum, files, idx, raw, findings, lastIndex, results,
                   totalFindings, console, exitCode, scanned>>

\* writeFileSync throwing (no docs/ops/reports directory, no permission):
\* nothing catches the error and the process ends with status 1
WriteReportFail ==
    /\ pc = "loop"
    /\ idx > Len(files)
    /\ writeAttempts' = writeAttempts + 1
    /\ console' = Append(console, Plain("uncaught"))
    /\ exitCode' = 1
    /\ pc' = "exited"
    /\ UNCHANGED <<enum, files, idx, raw, findings, lastIndex, results,
                   totalFindings, written, scanned>>

\* the human-readable report, totalFindings === 0
ReportClean ==
    /\ pc = "report"
    /\ totalFindings = 0
    /\ console' = Append(console, Plain("clean"))
    /\ pc' = "exit"
    /\ UNCHANGED <<enum, files, idx, raw, findings, lastIndex, results,
                   totalFindings, written, writeAttempts, exitCode, scanned>>

\* the human-readable report, else branch
ReportFindings ==
    /\ pc = "report"
    /\ totalFindings # 0
    /\ console' = console \o FoundLines(results, totalFindings)
    /\ pc' = "exit"
    /\ UNCHANGED <<enum, files, idx, raw, findings, lastIndex, results,
                   totalFindings, written, writeAttempts, exitCode, scanned>>

\* process.exit(totalFindings > 0 ? 1 : 0)
Exit ==
    /\ pc = "exit"
    /\ exitCode' = ExitStatus(totalFindings)
    /\ pc' = "exited"
    /\ UNCHANGED <<enum, files, idx, raw, findings, lastIndex, results,
                   totalFindings, written, writeAttempts, console, scanned>>

Next ==
    \/ GetGitFilesOk
    \/ GetGitFilesFail
    \/ ScanFileStep
    \/ Aggregate
    \/ WriteReportOk
    \/ WriteReportFail
    \/ ReportClean
    \/ ReportFindings
    \/ Exit

Spec == Init /\ [][Next]_vars

----------------------------------------------------------------------------
(* scanFile on its own, over every catalogued character *)

\* bytes of the files scanFile is applied to: every catalogued character,
\* newline, carriage return, a letter and an invalid byte
ScanBytes ==
    {unsafePattern[i] : i \in 1..Len(unsafePattern)}
        \cup {LF, 13, 97, InvalidByte}

ScanReads == {ReadError} \cup {ReadOk(b) : b \in SeqsUpTo(ScanBytes, MaxScanLen)}

InitScan ==
    /\ pc = "scanFile"
    /\ enum = "ok"
    /\ files = <<>>
    /\ idx = 1
    /\ raw \in ScanReads
    /\ findings = <<>>
    /\ lastIndex = 0
    /\ results = EmptyObject
    /\ totalFindings = 0
    /\ written = NotWritten
    /\ writeAttempts = 0
    /\ console = <<>>
    /\ exitCode = NoExit
    /\ scanned = <<>>

\* one call of scanFile on the file raw describes
ScanCall ==
    /\ pc = "scanFile"
    /\ LET r == scanFile(raw, lastIndex)
       IN  /\ findings' = r.findings
           /\ lastIndex' = r.lastIndex
           /\ scanned' = Append(scanned, Len(r.findings))
    /\ pc' = "returned"
    /\ UNCHANGED <<enum, files, idx, raw, results, totalFindings, written,
                   writeAttempts, console, exitCode>>

NextScan == ScanCall

ScanSpec == InitScan /\ [][NextScan]_vars

----------------------------------------------------------------------------
(* Properties *)

RECURSIVE SumSeq(_)
SumSeq(q) == IF q = <<>> THEN 0 ELSE Head(q) + SumSeq(Tail(q))

LoopDone == pc = "loop" /\ idx > Len(files)

KindsOf(lines) == {lines[i].kind : i \in 1..Len(lines)}

\* C1 as stated: whenever the process has exited, the exit status is 0 if
\* and only if the total finding count is 0.
C1_ExitZeroIffNoFindings ==
    pc = "exited" => ((exitCode = 0) <=> (totalFindings = 0))

\* C1 amended: the exit status is 0 exactly when enumeration succeeded, the
\* report write succeeded and no scanFile call returned a finding; it is 1
\* in every other run.
C1_ExitStatus ==
    pc = "exited" =>
        /\ exitCode \in {0, 1}
        /\ totalFindings = SumSeq(scanned)
        /\ (exitCode = 0) <=>
               (enum = "ok" /\ written.present /\ SumSeq(scanned) = 0)

C1_Witness ==
    /\ pc = "exited"
    /\ enum = "ok"
    /\ written.present
    /\ totalFindings = 1
    /\ exitCode = 1

\* C2: once the loop has processed the whole list, a path of the list is a
\* key of results if and only if a scan of that path returned a finding.
C2_KeyIffFindings ==
    LoopDone =>
        \A i \in 1..Len(files) :
            HasOwn(results, files[i]) <=>
                \E j \in 1..Len(files) : files[j] = files[i] /\ scanned[j] > 0

\* the catalogue as section 6 of the specification prints it
Catalogue ==
    { [code |-> 8234, label |-> <<"U","+","2","0","2","A">>,
       name |-> "LRE (Left-to-Right Embedding)"],
      [code |-> 8235, label |-> <<"U","+","2","0","2","B">>,
       name |-> "RLE (Right-to-Left Embedding)"],
      [code |-> 8236, label |-> <<"U","+","2","0","2","C">>,
       name |-> "PDF (Pop Directional Formatting)"],
      [code |-> 8237, label |-> <<"U","+","2","0","2","D">>,
       name |-> "LRO (Left-to-Right Override)"],
      [code |-> 8238, label |-> <<"U","+","2","0","2","E">>,
       name |-> "RLO (Right-to-Left Override)"],
      [code |-> 8294, label |-> <<"U","+","2","0","6","6">>,
       name |-> "LRI (Left-to-Right Isolate)"],
      [code |-> 8295, label |-> <<"U","+","2","0","6","7">>,
       name |-> "RLI (Right-to-Left Isolate)"],
      [code |-> 8296, label |-> <<"U","+","2","0","6","8">>,
       name |-> "FSI (First Strong Isolate)"],
      [code |-> 8297, label |-> <<"U","+","2","0","6","9">>,
       name |-> "PDI (Pop Directional Isolate)"],
      [code |-> 8203, label |-> <<"U","+","2","0","0","B">>,
       name |-> "ZWSP (Zero Width Space)"],
      [code |-> 8204, label |-> <<"U","+","2","0","0","C">>,
       name |-> "ZWNJ (Zero Width Non-Joiner)"],
      [code |-> 8205, label |-> <<"U","+","2","0","0","D">>,
       name |-> "ZWJ (Zero Width Joiner)"],
      [code |-> 8206, label |-> <<"U","+","2","0","0","E">>,
       name |-> "LRM (Left-to-Right Mark)"],
      [code |-> 8207, label |-> <<"U","+","2","0","0","F">>,
       name |-> "RLM (Right-to-Left Mark)"],
      [code |-> 65279, label |-> <<"U","+","F","E","F","F">>,
       name |-> "BOM/ZWNBSP (Zero Width No-Break Space)"] }

Catalogued(c) == \E e \in Catalogue : e.code = c

EntryOf(c) == CHOOSE e \in Catalogue : e.code = c

\* the text of a file readFileSync returned
ContentOf(read) == Decode(read.bytes)

\* C3: for a readable file, scanFile returns one finding per position that
\* holds a catalogued character and no other, each with the character, label
\* and name of that position, in strictly increasing position order.
C3_OneFindingPerOccurrence ==
    (pc = "returned" /\ raw.ok) =>
        LET content == ContentOf(raw)
            hits == {i \in 0..(Len(content) - 1) : Catalogued(content[i + 1])}
        IN  /\ Len(findings) = Cardinality(hits)
            /\ \A k \in 1..Len(findings) :
                   /\ findings[k].position \in hits
                   /\ findings[k].char = content[findings[k].position + 1]
                   /\ findings[k].codepoint = EntryOf(findings[k].char).label
                   /\ findings[k].name = EntryOf(findings[k].char).name
            /\ \A k \in 1..(Len(findings) - 1) :
                   findings[k].position < findings[k + 1].position

C3_Witness ==
    /\ pc = "returned"
    /\ raw.ok
    /\ Len(findings) = 3
    /\ findings[1].char # findings[2].char

\* C4: the line of every finding is 1 + the number of newline characters
\* strictly before its position; no other character counts.
C4_LineIsNewlinesBefore ==
    (pc = "returned" /\ raw.ok) =>
        LET content == ContentOf(raw)
        IN  \A k \in 1..Len(findings) :
                findings[k].line =
                    1 + Cardinality({i \in 1..findings[k].position :
                                         content[i] = LF})

C4_Witness ==
    /\ pc = "returned"
    /\ raw.ok
    /\ \E k \in 1..Len(findings) :
           /\ findings[k].line = 2
           /\ findings[k].position = 2
           /\ \E i \in 1..2 : ContentOf(raw)[i] = 13

\* the position of key k in a sequence of keys that holds it
KeyPos(keys, k) == Min({p \in 1..Len(keys) : keys[p] = k})

Holds(keys, k) == \E p \in 1..Len(keys) : keys[p] = k

Occurrences(k) == Cardinality({i \in 1..Len(files) : files[i] = k})

\* keys lists two paths of the file list in the order of the file list
\* whenever it lists both and both had findings
InInputOrder(keys) ==
    \A i, j \in 1..Len(files) :
        ( /\ i < j
          /\ Len(scanned) = Len(files)
          /\ scanned[i] > 0
          /\ scanned[j] > 0
          /\ Occurrences(files[i]) = 1
          /\ Occurrences(files[j]) = 1
          /\ Holds(keys, files[i])
          /\ Holds(keys, files[j]) )
        => KeyPos(keys, files[i]) < KeyPos(keys, files[j])

ReportKeys == [i \in 1..Len(written.content) |-> written.content[i][1]]

IsFileLine(l) == l.kind = "file"

ConsoleFiles ==
    LET fileLines == SelectSeq(console, IsFileLine)
    IN  [i \in 1..Len(fileLines) |-> fileLines[i].path]

\* C5: of two paths with findings, the one earlier in the file list is
\* earlier in the key order of the written report and in the console
\* summary.
C5_InputOrderPreserved ==
    /\ written.present => InInputOrder(ReportKeys)
    /\ pc \in {"exit", "exited"} => InInputOrder(ConsoleFiles)

Undecodable(read) ==
    read.ok /\ \E i \in 1..Len(read.bytes) : read.bytes[i] = InvalidByte

\* C6: for a file that cannot be read or cannot be decoded as text,
\* scanFile returns the empty sequence and the run goes on.
C6_UnreadableNoFindings ==
    (pc = "aggregate" /\ (~raw.ok \/ Undecodable(raw))) =>
        /\ findings = <<>>
        /\ exitCode = NoExit

\* C7: when git ls-files fails the process has exited with status 1, no
\* scanFile call was made and no report write was attempted; a run whose
\* enumeration did not fail exits only after scanFile was called for every
\* file of the list.
C7_EnumerationFailureOnly ==
    /\ enum = "failed" =>
           /\ pc = "exited"
           /\ exitCode = 1
           /\ scanned = <<>>
           /\ writeAttempts = 0
           /\ ~written.present
    /\ (exitCode # NoExit /\ enum # "failed") =>
           /\ enum = "ok"
           /\ Len(scanned) = Len(files)
           /\ idx = Len(files) + 1

C7_Witness ==
    /\ enum = "failed"
    /\ pc = "exited"
    /\ Plain("error") \in {console[i] : i \in 1..Len(console)}

\* C8 as stated: every run whose enumeration succeeded has written the
\* report exactly once by the time it exits.
C8_ReportAlwaysWritten ==
    (pc = "exited" /\ enum = "ok") => (written.present /\ writeAttempts = 1)

SummaryPrinted == KindsOf(console) \cap {"clean", "found", "summary"} # {}

\* C8 amended: in a run whose enumeration succeeded writeFileSync is called
\* exactly once, after every file was scanned and before the summary and
\* the exit; when the call succeeds the report is the serialized results,
\* the empty mapping when there are no findings; when it throws the run
\* ends with status 1, without report and without summary.
C8_ReportWriteOnce ==
    /\ writeAttempts <= 1
    /\ writeAttempts = 1 =>
           /\ enum = "ok"
           /\ Len(scanned) = Len(files)
           /\ idx = Len(files) + 1
    /\ (pc \in {"report", "exit"} \/ (pc = "exited" /\ enum = "ok")) =>
           writeAttempts = 1
    /\ written.present => writeAttempts = 1
    /\ SummaryPrinted => written.present
    /\ exitCode = 0 => written.present
    /\ written.present =>
           /\ written.content = Stringify(results)
           /\ (SumSeq(scanned) = 0 => written.content = <<>>)
    /\ (pc = "exited" /\ enum = "ok" /\ ~written.present) =>
           (exitCode = 1 /\ ~SummaryPrinted)

C8_Witness ==
    /\ pc = "exited"
    /\ Len(files) = 2
    /\ written.present
    /\ written.content = <<>>
    /\ exitCode = 0

RECURSIVE SumOfLengths(_)
SumOfLengths(entries) ==
    IF entries = <<>> THEN 0
    ELSE Len(Head(entries)[2]) + SumOfLengths(Tail(entries))

\* C9: between iterations and at the end of the loop, totalFindings is the
\* sum of the lengths of the finding sequences under the keys of results.
C9_TotalIsSumOfReport ==
    pc = "loop" => totalFindings = SumOfLengths(Entries(results))

\* C10: a call of scanFile changes nothing of main's state, writes no
\* output, and returns what scanning the file alone returns, whatever was
\* scanned before.
C10_ScanFileIsPure ==
    [][ (pc = "loop" /\ pc' = "aggregate") =>
            /\ results' = results
            /\ totalFindings' = totalFindings
            /\ files' = files
            /\ idx' = idx
            /\ console' = console
            /\ written' = written
            /\ writeAttempts' = writeAttempts
            /\ exitCode' = exitCode
            /\ lastIndex' = lastIndex
            /\ findings' = scanFile(raw', 0).findings ]_vars

C10_Witness ==
    /\ pc = "aggregate"
    /\ idx = 2
    /\ scanned[1] > 0
    /\ Len(findings) = 2
    /\ results.own # <<>>

====
